---- MODULE Spec2Model ----
(***************************************************************************)
(* gorilla-core: the backup helper (gorilla/config/backup.py) and the      *)
(* filesystem helpers symlink and scandir (gorilla/utils/path.py).         *)
(*                                                                         *)
(* A Python str is a tuple of one-character strings, so that split,        *)
(* startswith, endswith and fnmatch are computed on the characters.        *)
(* A filesystem is the set of its regular files' paths; a directory exists *)
(* when some file lies under it.  The sources of a backup and its          *)
(* destination backup_dir are disjoint parts of the filesystem.            *)
(***************************************************************************)
EXTENDS Integers, Sequences, FiniteSets, TLC

VARIABLES
    \* ---- backup(backup_dir, backup_list, logger, contain_suffix, strict)
    srcFiles,       \* the regular files of the working directory (the sources)
    dstExists,      \* osp.exists(backup_dir)
    dstFiles,       \* regular files under backup_dir, relative to it
    dstDirs,        \* directories under backup_dir, relative to it
    backup_list,    \* argument: [isList, val], a str or a list of str
    contain_suffix, \* argument: [isList, val], a pattern or a list of patterns
    strict,         \* argument
    logger,         \* argument: "None" or "Logger"
    pc,             \* position in backup: start, log, loop, done, raised
    idx,            \* position of the for loop in backup_list (1-based)
    err,            \* the exception that ended the call, or NoErr
    warned,         \* warnings.warn messages emitted so far
    logged,         \* logger.info messages recorded so far
    copied,         \* destination files written by the current call
    calls,          \* number of backup calls started
    prevDst,        \* destination left by the previous call
    \* ---- scandir(dir_path, prefix, suffix, recursive)
    scanFiles,      \* the regular files under the scanned root, relative to it
    dir_path, prefix, suffix, recursive,   \* arguments
    spc,            \* position of the generator: call, iter, done, raised
    todo,           \* entries of os.scandir(root) not yet visited
    yielded,        \* the paths yielded so far, in order
    serr,           \* the exception that ended the scan, or NoErr
    \* ---- symlink(src, dst, overwrite)
    fs,             \* path -> node of a flat directory
    last            \* the last symlink call: arguments, dst before, outcome

bvars == <<srcFiles, dstExists, dstFiles, dstDirs, backup_list, contain_suffix,
           strict, logger, pc, idx, err, warned, logged, copied, calls, prevDst>>
svars == <<scanFiles, dir_path, prefix, suffix, recursive, spc, todo, yielded, serr>>
lvars == <<fs, last>>
vars == <<bvars, svars, lvars>>

NoErr == [kind |-> "none", msg |-> "", at |-> <<>>]

-----------------------------------------------------------------------------
(* Python str operations *)

\* s.startswith(p), p a str
StartsWith(s, p) == Len(p) <= Len(s) /\ SubSeq(s, 1, Len(p)) = p

\* s.endswith(p), p a str
EndsWith(s, p) == Len(p) <= Len(s) /\ SubSeq(s, Len(s) - Len(p) + 1, Len(s)) = p

\* positions of the character c in s
Occurrences(s, c) == {k \in 1..Len(s) : s[k] = c}

SetMin(S) == CHOOSE m \in S : \A k \in S : m <= k

\* s.split(c)
RECURSIVE Split(_, _)
Split(s, c) ==
    IF Occurrences(s, c) = {} THEN <<s>>
    ELSE LET k == SetMin(Occurrences(s, c))
         IN  <<SubSeq(s, 1, k - 1)>> \o Split(SubSeq(s, k + 1, Len(s)), c)

\* s.split(c)[-1]
LastField(s, c) == LET parts == Split(s, c) IN parts[Len(parts)]

\* osp.join(a, b) for a relative b
PathJoin(a, b) == IF a = <<>> THEN b ELSE a \o <<"/">> \o b

\* "/".join(parts[1..k])
RECURSIVE JoinFirst(_, _)
JoinFirst(parts, k) ==
    IF k = 0 THEN <<>>
    ELSE IF k = 1 THEN parts[1]
    ELSE JoinFirst(parts, k - 1) \o <<"/">> \o parts[k]

\* fnmatch.fnmatch(name, pat) for patterns whose only wildcard is "*"
RECURSIVE FnMatch(_, _)
FnMatch(name, pat) ==
    IF pat = <<>> THEN name = <<>>
    ELSE IF Head(pat) = "*"
         THEN \E k \in 0..Len(name) : FnMatch(SubSeq(name, k + 1, Len(name)), Tail(pat))
         ELSE name # <<>> /\ Head(name) = Head(pat) /\ FnMatch(Tail(name), Tail(pat))

\* name.startswith(".")
Hidden(name) == StartsWith(name, <<".">>)

-----------------------------------------------------------------------------
(* Filesystem queries over a set of file paths *)

\* the files of F lying under directory d
Under(F, d) == {f \in F : StartsWith(f, d \o <<"/">>)}

IsFile(F, p) == p \in F
IsDir(F, p) == Under(F, p) # {}
Exists(F, p) == IsFile(F, p) \/ IsDir(F, p)

\* components of f relative to the directory d it lies under
RelParts(f, d) == Split(SubSeq(f, Len(d) + 2, Len(f)), "/")

-----------------------------------------------------------------------------
(* The strings of the model *)

s_data    == <<"d","a","t","a">>
s_log     == <<"l","o","g">>
s_gone    == <<"g","o","n","e">>
s_lib_m   == <<"l","i","b","/","m",".","p","y">>
s_a_py    == <<"d","a","t","a","/","a",".","p","y">>
s_b_txt   == <<"d","a","t","a","/","b",".","t","x","t">>
s_readme  == <<"d","a","t","a","/","R","E","A","D","M","E">>
s_env     == <<"d","a","t","a","/",".","e","n","v">>
s_sub_c   == <<"d","a","t","a","/","s","u","b","/","c",".","p","y">>
s_old     == <<"d","a","t","a","/","o","l","d",".","p","y">>
p_py      == <<"*",".","p","y">>
p_txt     == <<"*",".","t","x","t">>

\* the files the working directory may hold
CandidateFiles == {s_a_py, s_b_txt, s_readme, s_env, s_sub_c, s_lib_m}
\* the paths a caller may name in backup_list; s_gone never exists
SourceNames == {s_data, s_lib_m, s_gone}
\* the patterns a caller may put in contain_suffix
Patterns == {p_py, p_txt}
\* the optional companion packages whose version is logged when installed
Companions == {"gorilla2d", "gorilla3d"}

\* bounds of the model
MaxSources == 2
MaxSuffixes == 2
MaxCalls == 2

\* sequences over S of length at most n
SeqsUpTo(S, n) == UNION {[1..k -> S] : k \in 0..n}

-----------------------------------------------------------------------------
(* backup: helpers *)

\* a str-or-list argument as the list the loop runs over
AsList(arg) == IF arg.isList THEN arg.val ELSE <<arg.val>>

Sources == AsList(backup_list)

\* glob.iglob(osp.join(name, "**", "*.*"), recursive=True): the files and
\* directories under name whose own name holds a dot, reached through
\* directories that are not hidden; a name starting with a dot never matches
GlobDotted(F, name) ==
    UNION {{PathJoin(name, JoinFirst(RelParts(f, name), k)) :
              k \in {n \in 1..Len(RelParts(f, name)) :
                       /\ \A j \in 1..n : ~Hidden(RelParts(f, name)[j])
                       /\ FnMatch(RelParts(f, name)[n], <<"*", ".", "*">>)}} :
           f \in Under(F, name)}

\* set(map(lambda x: "*." + x.split("/")[-1].split(".")[-1], files))
ObservedSuffixes(F, name) ==
    {<<"*", ".">> \o LastField(LastField(x, "/"), ".") : x \in GlobDotted(F, name)}

\* for suffix in contain_suffix: ignore_suffix.remove(suffix)
\* set.remove raises KeyError on an element that is not in the set
RECURSIVE RemoveEach(_, _)
RemoveEach(S, pats) ==
    IF pats = <<>> THEN [ok |-> TRUE, set |-> S, key |-> <<>>]
    ELSE IF Head(pats) \notin S THEN [ok |-> FALSE, set |-> S, key |-> Head(pats)]
    ELSE RemoveEach(S \ {Head(pats)}, Tail(pats))

\* shutil.ignore_patterns(*patterns) applied to one directory entry
Ignored(n, patterns) == \E p \in patterns : FnMatch(n, p)

\* shutil.copytree(name, backup_dir/name, ignore=...): the files it copies.
\* An ignored entry is skipped, a directory with everything below it.
CopyTreeFiles(F, name, patterns) ==
    {f \in Under(F, name) :
        \A k \in 1..Len(RelParts(f, name)) : ~Ignored(RelParts(f, name)[k], patterns)}

\* the parent directories of a relative path
Parents(p) == {JoinFirst(Split(p, "/"), k) : k \in 1..(Len(Split(p, "/")) - 1)}

\* shutil.copytree: the directories it creates (os.makedirs(dst) with
\* its parents, then every directory that is not ignored)
CopyTreeDirs(F, name, patterns) ==
    {name} \cup Parents(name) \cup
    UNION {{PathJoin(name, JoinFirst(RelParts(f, name), k)) :
              k \in {n \in 1..(Len(RelParts(f, name)) - 1) :
                       \A j \in 1..n : ~Ignored(RelParts(f, name)[j], patterns)}} :
           f \in Under(F, name)}

\* shutil.copy(name, osp.join(backup_dir, dst_name)): the file it writes;
\* a destination that is a directory receives the file under its own name
CopyTarget(dirs, name) ==
    LET dst_name == LastField(name, "/")
    IN  IF dst_name \in dirs THEN PathJoin(dst_name, LastField(name, "/"))
        ELSE dst_name

-----------------------------------------------------------------------------
(* backup: the call *)

\* the arguments a caller may pass for a str-or-list parameter
ListOrStr(S, n) ==
    {[isList |-> TRUE, val |-> l] : l \in SeqsUpTo(S, n)} \cup
    {[isList |-> FALSE, val |-> x] : x \in S}

\* what backup_dir may hold before the first call
InitialDestinations ==
    { [exists |-> FALSE, files |-> {}, dirs |-> {}],
      [exists |-> TRUE,  files |-> {}, dirs |-> {}],
      [exists |-> TRUE,  files |-> {s_old}, dirs |-> {s_data}] }

ScanIdle ==
    /\ scanFiles = {} /\ dir_path = "idle" /\ prefix = "idle" /\ suffix = "idle"
    /\ recursive = FALSE /\ spc = "idle" /\ todo = {} /\ yielded = <<>>
    /\ serr = NoErr

\* no symlink call made yet
NoCall == [src |-> "", dst |-> "", overwrite |-> FALSE,
           before |-> [kind |-> "absent", target |-> ""], stale |-> FALSE,
           result |-> "none"]

LinkIdle == fs = <<>> /\ last = NoCall

BackupIdle ==
    /\ srcFiles = {} /\ dstExists = FALSE /\ dstFiles = {} /\ dstDirs = {}
    /\ backup_list = "idle" /\ contain_suffix = "idle" /\ strict = FALSE
    /\ logger = "idle" /\ pc = "idle" /\ idx = 0 /\ err = NoErr /\ warned = {}
    /\ logged = {} /\ copied = {} /\ calls = 0 /\ prevDst = "idle"

\* the state in which backup is entered for the first time, the sources
\* drawn from the files F, the arguments from the sets L and S
BackupInit(F, L, S) ==
    /\ srcFiles \in SUBSET F
    /\ \E d \in InitialDestinations :
         dstExists = d.exists /\ dstFiles = d.files /\ dstDirs = d.dirs
    /\ backup_list \in L
    /\ contain_suffix \in S
    /\ strict \in BOOLEAN
    /\ logger \in {"None", "Logger"}
    /\ pc = "start" /\ idx = 0 /\ err = NoErr
    /\ warned = {} /\ logged = {} /\ copied = {}
    /\ calls = 1 /\ prevDst = "none"

\* several sources, files and directories, some of them missing
Init ==
    /\ BackupInit({s_a_py, s_b_txt, s_lib_m},
                  ListOrStr(SourceNames, MaxSources),
                  ListOrStr({p_py}, MaxSuffixes))
    /\ ScanIdle /\ LinkIdle

\* one source directory, every tree and every list of patterns
InitFilter ==
    /\ BackupInit(CandidateFiles \ {s_lib_m},
                  {[isList |-> TRUE, val |-> <<s_data>>], [isList |-> FALSE, val |-> s_data]},
                  ListOrStr(Patterns, MaxSuffixes))
    /\ ScanIdle /\ LinkIdle

\* ResetDestination without the rmtree: the old destination is kept
ResetDestinationKeeps ==
    /\ pc = "start"
    /\ dstExists' = TRUE
    /\ pc' = "log"
    /\ UNCHANGED <<srcFiles, dstFiles, dstDirs, backup_list, contain_suffix, strict,
                   logger, idx, err, warned, logged, copied, calls, prevDst>>
    /\ UNCHANGED <<svars, lvars>>

\* lines 28-31: if osp.exists(backup_dir): shutil.rmtree(backup_dir);
\* os.makedirs(backup_dir, exist_ok=True)
ResetDestination ==
    /\ pc = "start"
    /\ dstExists' = TRUE
    /\ dstFiles' = {}
    /\ dstDirs' = {}
    /\ pc' = "log"
    /\ UNCHANGED <<srcFiles, backup_list, contain_suffix, strict, logger, idx, err,
                   warned, logged, copied, calls, prevDst>>
    /\ UNCHANGED <<svars, lvars>>

\* lines 33-49: logger.info of the versions and of the destination.
\* logger.info on logger=None raises AttributeError; the import of a
\* companion package that is not installed is swallowed.
LogVersions ==
    /\ pc = "log"
    /\ IF logger = "None"
       THEN /\ pc' = "raised"
            /\ err' = [kind |-> "AttributeError", msg |-> "info", at |-> <<>>]
            /\ UNCHANGED <<logged, idx>>
       ELSE /\ \E installed \in SUBSET Companions :
                 logged' = logged \cup {<<"version", "gorilla-core">>}
                                  \cup {<<"version", c>> : c \in installed}
                                  \cup {<<"backup files at", "backup_dir">>}
            /\ idx' = 1
            /\ pc' = "loop"
            /\ UNCHANGED err
    /\ UNCHANGED <<srcFiles, dstExists, dstFiles, dstDirs, backup_list,
                   contain_suffix, strict, logger, warned, copied, calls, prevDst>>
    /\ UNCHANGED <<svars, lvars>>

\* line 53: miss_flag = (not osp.exists(name))
MissFlag(F, name) == ~Exists(F, name)

\* RaisesMissing with the strict flag ignored: a missing source never raises
RaisesMissingNever(strictFlag, miss) == FALSE

\* RaisesMissing with the strict flag ignored: a missing source always raises
RaisesMissingAlways(strictFlag, miss) == miss

\* lines 55-56: a missing source raises only under strict
RaisesMissing(strictFlag, miss) == miss /\ strictFlag

\* lines 57-61: the warnings of one iteration
Warnings(name, miss) ==
    (IF miss THEN {<<"not exist", name>>} ELSE {}) \cup
    (IF name \in {s_data, s_log} THEN {<<"maybe the unsuitable to backup", name>>} ELSE {})

\* lines 51-73: one iteration of the for loop over backup_list
ProcessSource ==
    /\ pc = "loop"
    /\ idx <= Len(Sources)
    /\ LET name == Sources[idx]
           miss == MissFlag(srcFiles, name)
           removed == RemoveEach(ObservedSuffixes(srcFiles, name), AsList(contain_suffix))
       IN  IF RaisesMissing(strict, miss)
           THEN /\ pc' = "raised"
                /\ err' = [kind |-> "FileExistsError", msg |-> "not exist", at |-> name]
                /\ UNCHANGED <<dstFiles, dstDirs, copied, warned, idx>>
           ELSE /\ warned' = warned \cup Warnings(name, miss)
                /\ IF IsFile(srcFiles, name)
                   THEN /\ dstFiles' = dstFiles \cup {CopyTarget(dstDirs, name)}
                        /\ copied' = copied \cup {CopyTarget(dstDirs, name)}
                        /\ idx' = idx + 1
                        /\ UNCHANGED <<dstDirs, pc, err>>
                   ELSE IF IsDir(srcFiles, name)
                   THEN IF ~removed.ok
                        THEN /\ pc' = "raised"
                             /\ err' = [kind |-> "KeyError", msg |-> "remove", at |-> removed.key]
                             /\ UNCHANGED <<dstFiles, dstDirs, copied, idx>>
                        ELSE IF name \in dstDirs \cup dstFiles
                        THEN /\ pc' = "raised"
                             /\ err' = [kind |-> "FileExistsError", msg |-> "File exists", at |-> name]
                             /\ UNCHANGED <<dstFiles, dstDirs, copied, idx>>
                        ELSE /\ dstFiles' = dstFiles \cup CopyTreeFiles(srcFiles, name, removed.set)
                             /\ copied' = copied \cup CopyTreeFiles(srcFiles, name, removed.set)
                             /\ dstDirs' = dstDirs \cup CopyTreeDirs(srcFiles, name, removed.set)
                             /\ idx' = idx + 1
                             /\ UNCHANGED <<pc, err>>
                   ELSE /\ idx' = idx + 1
                        /\ UNCHANGED <<dstFiles, dstDirs, copied, pc, err>>
    /\ UNCHANGED <<srcFiles, dstExists, backup_list, contain_suffix, strict, logger,
                   logged, calls, prevDst>>
    /\ UNCHANGED <<svars, lvars>>

\* the for loop is exhausted and backup returns None
Return ==
    /\ pc = "loop"
    /\ idx > Len(Sources)
    /\ pc' = "done"
    /\ UNCHANGED <<srcFiles, dstExists, dstFiles, dstDirs, backup_list, contain_suffix,
                   strict, logger, idx, err, warned, logged, copied, calls, prevDst>>
    /\ UNCHANGED <<svars, lvars>>

\* the caller runs backup again with the same arguments, the sources unchanged
CallAgain ==
    /\ pc \in {"done", "raised"}
    /\ calls < MaxCalls
    /\ calls' = calls + 1
    /\ prevDst' = [files |-> dstFiles, dirs |-> dstDirs]
    /\ pc' = "start"
    /\ idx' = 0
    /\ err' = NoErr
    /\ copied' = {}
    /\ UNCHANGED <<srcFiles, dstExists, dstFiles, dstDirs, backup_list, contain_suffix,
                   strict, logger, warned, logged>>
    /\ UNCHANGED <<svars, lvars>>

Next == ResetDestination \/ LogVersions \/ ProcessSource \/ Return \/ CallAgain

Spec == Init /\ [][Next]_vars

SpecFilter == InitFilter /\ [][Next]_vars

-----------------------------------------------------------------------------
(* backup: the claims *)

\* the sources at the positions the loop has completed
DonePositions == 1..(IF idx - 1 <= Len(Sources) THEN idx - 1 ELSE Len(Sources))

\* f, a destination file, is what the copy of source name leaves behind
FromSource(f, name) ==
    \/ IsFile(srcFiles, name) /\ f \in {LastField(name, "/"),
                                        PathJoin(LastField(name, "/"), LastField(name, "/"))}
    \/ IsDir(srcFiles, name) /\ f \in Under(srcFiles, name)

\* a file name with an extension: a dot that is not its first character
HasExtension(b) == \E k \in Occurrences(b, ".") : k > 1

\* the extension of file f, as a pattern, is one of the allowed ones
ExtensionAllowed(f, allowed) ==
    /\ HasExtension(LastField(f, "/"))
    /\ \E q \in 1..Len(allowed) :
         allowed[q] = <<"*", ".">> \o LastField(LastField(f, "/"), ".")

\* C1: after backup(backup_dir, [T], contain_suffix=E) returns, the
\* destination subtree backup_dir/T holds exactly the files of T whose
\* extension is in E, at the same relative paths, and no other file.
C1_ExactlyAllowedFiles ==
    (pc = "done" /\ Sources = <<s_data>> /\ IsDir(srcFiles, s_data))
    => Under(dstFiles, s_data) =
         {f \in Under(srcFiles, s_data) : ExtensionAllowed(f, AsList(contain_suffix))}

\* C2: a pattern of contain_suffix that matches no extension present in
\* the source directory has no effect: the call does not raise on it.
C2_AbsentPatternHarmless ==
    ~( /\ pc = "raised"
       /\ err.kind = "KeyError"
       /\ err.at \notin ObservedSuffixes(srcFiles, Sources[idx]) )

\* C3: with strict=True the loop never gets past a path that does not
\* exist: the call ends there with the missing-source error naming the
\* path, nothing is at the destination for that path or a later one, and
\* what the earlier sources copied is still there.
C3_StrictMissingRaises ==
    /\ (strict /\ pc \in {"loop", "done", "raised"})
         => \A j \in DonePositions : Exists(srcFiles, Sources[j])
    /\ (strict /\ pc = "raised" /\ idx \in 1..Len(Sources)
               /\ ~Exists(srcFiles, Sources[idx]))
         => err = [kind |-> "FileExistsError", msg |-> "not exist", at |-> Sources[idx]]
    /\ (pc = "raised" /\ err.msg = "not exist")
         => /\ strict
            /\ idx \in 1..Len(Sources)
            /\ err.at = Sources[idx]
            /\ ~Exists(srcFiles, Sources[idx])
            /\ \A f \in dstFiles : \E j \in DonePositions : FromSource(f, Sources[j])
            /\ \A j \in DonePositions :
                 /\ IsFile(srcFiles, Sources[j]) => \E f \in dstFiles : FromSource(f, Sources[j])
                 /\ IsDir(srcFiles, Sources[j]) => Sources[j] \in dstDirs

C3_Witness ==
    /\ pc = "raised" /\ err.msg = "not exist" /\ idx = 2
    /\ dstFiles # {}

\* C4: with strict=False a path that does not exist never makes backup
\* raise: a warning is emitted for it, nothing is created at the
\* destination for it, and the later sources are processed in order.
C4_LenientMissingContinues ==
    (~strict /\ pc \in {"loop", "done", "raised"})
    => /\ err.msg # "not exist"
       /\ (pc = "raised" /\ idx \in 1..Len(Sources)) => Exists(srcFiles, Sources[idx])
       /\ \A j \in DonePositions :
            ~Exists(srcFiles, Sources[j])
            => /\ <<"not exist", Sources[j]>> \in warned
               /\ Sources[j] \notin dstDirs
               /\ LastField(Sources[j], "/") \notin dstFiles \cup dstDirs
               /\ \A f \in dstFiles : f \in copied /\ ~StartsWith(f, Sources[j] \o <<"/">>)
       /\ pc = "done"
            => /\ idx = Len(Sources) + 1
               /\ \A k \in 1..Len(Sources) :
                    /\ IsFile(srcFiles, Sources[k]) => \E f \in dstFiles : FromSource(f, Sources[k])
                    /\ IsDir(srcFiles, Sources[k]) => Sources[k] \in dstDirs

C4_Witness ==
    /\ ~strict /\ pc = "done" /\ Len(Sources) = 2
    /\ ~Exists(srcFiles, Sources[1])
    /\ Exists(srcFiles, Sources[2])
    /\ dstFiles # {}
    /\ <<"not exist", Sources[1]>> \in warned

\* C5: backup with logger=None does not crash on the missing logger.
C5_NoLoggerNoCrash ==
    logger = "None" => ~(pc = "raised" /\ err.kind = "AttributeError")

\* C8: a second backup with the same arguments leaves the destination the
\* first one left: every call discards what backup_dir held before it, so
\* a file that the call did not copy is not at the destination.
C8_SecondCallSameDestination ==
    /\ pc \notin {"start", "idle"} => dstFiles \subseteq copied
    /\ (calls >= 2 /\ pc \in {"done", "raised"})
         => [files |-> dstFiles, dirs |-> dstDirs] = prevDst

C8_Witness ==
    /\ calls = 2 /\ pc = "done"
    /\ dstFiles # {}
    /\ warned # {}

-----------------------------------------------------------------------------
(* scandir *)

n_a_py     == <<"a",".","p","y">>
n_b_txt    == <<"b",".","t","x","t">>
n_hidden   == <<".","h","i","d","d","e","n",".","p","y">>
n_sub_c    == <<"s","u","b","/","c",".","p","y">>
n_git_x    == <<".","g","i","t","/","x",".","p","y">>
x_py       == <<".","p","y">>
x_txt      == <<".","t","x","t">>

\* the files the scanned root may hold, relative to it
ScanCandidates == {n_a_py, n_b_txt, n_hidden, n_sub_c, n_git_x}

PyNone == [type |-> "None", val |-> {}]
PyStr(s) == [type |-> "str", val |-> {s}]
PyTuple(S) == [type |-> "tuple", val |-> S]
PyList(S) == [type |-> "list", val |-> S]

\* the values a caller may pass as prefix and as suffix
PrefixArgs == {PyNone, PyStr(<<"a">>), PyTuple({<<"a">>, <<"s","u">>}), PyList({<<"a">>})}
SuffixArgs == {PyNone, PyStr(x_py), PyTuple({x_py, x_txt}), PyList({x_py})}
\* the values a caller may pass as dir_path
DirPathArgs == {"str", "Path", "int"}

\* line 16: isinstance(x, (str, Path))
is_filepath(x) == x \in {"str", "Path"}

\* the names os.scandir(root) returns: the first component of every path
Entries(F) == {Split(f, "/")[1] : f \in F}

\* rel_path.startswith(arg) and rel_path.endswith(arg): a str or a tuple of
\* str is tested, anything else is a TypeError
PyStartsWith(s, arg) ==
    IF arg.type \in {"str", "tuple"}
    THEN (IF \E q \in arg.val : StartsWith(s, q) THEN "True" ELSE "False")
    ELSE "TypeError"

PyEndsWith(s, arg) ==
    IF arg.type \in {"str", "tuple"}
    THEN (IF \E q \in arg.val : EndsWith(s, q) THEN "True" ELSE "False")
    ELSE "TypeError"

\* lines 105-115: the if/elif chain on one file, evaluated left to right
\* with Python's short-circuit "and": "yield", "skip" or "TypeError"
Filter(rel_path, pre, suf) ==
    IF pre.type = "None" /\ suf.type = "None" THEN "yield"
    ELSE IF suf.type = "None" /\ PyStartsWith(rel_path, pre) = "True" THEN "yield"
    ELSE IF suf.type = "None" /\ PyStartsWith(rel_path, pre) = "TypeError" THEN "TypeError"
    ELSE IF pre.type = "None" /\ PyEndsWith(rel_path, suf) = "True" THEN "yield"
    ELSE IF pre.type = "None" /\ PyEndsWith(rel_path, suf) = "TypeError" THEN "TypeError"
    ELSE IF PyStartsWith(rel_path, pre) = "TypeError" THEN "TypeError"
    ELSE IF PyStartsWith(rel_path, pre) = "False" THEN "skip"
    ELSE IF PyEndsWith(rel_path, suf) = "TypeError" THEN "TypeError"
    ELSE IF PyEndsWith(rel_path, suf) = "True" THEN "yield"
    ELSE "skip"

InitScan ==
    /\ scanFiles \in SUBSET ScanCandidates
    /\ dir_path \in DirPathArgs
    /\ prefix \in PrefixArgs
    /\ suffix \in SuffixArgs
    /\ recursive \in BOOLEAN
    /\ spc = "call" /\ todo = {} /\ yielded = <<>> /\ serr = NoErr
    /\ BackupIdle /\ LinkIdle

\* lines 87-97, 124: the argument checks of scandir, which then returns the
\* generator; os.scandir(root) lists the entries when it is first advanced
ScanCall ==
    /\ spc = "call"
    /\ IF ~is_filepath(dir_path)
       THEN spc' = "raised" /\ serr' = [kind |-> "TypeError", msg |-> "dir_path", at |-> <<>>]
                            /\ UNCHANGED todo
       ELSE IF suffix.type \notin {"None", "str", "tuple"}
       THEN spc' = "raised" /\ serr' = [kind |-> "TypeError", msg |-> "suffix", at |-> <<>>]
                            /\ UNCHANGED todo
       ELSE IF prefix.type \notin {"None", "str", "tuple"}
       THEN spc' = "raised" /\ serr' = [kind |-> "TypeError", msg |-> "prefix", at |-> <<>>]
                            /\ UNCHANGED todo
       ELSE spc' = "iter" /\ todo' = Entries(scanFiles) /\ UNCHANGED serr
    /\ UNCHANGED <<scanFiles, dir_path, prefix, suffix, recursive, yielded>>
    /\ UNCHANGED <<bvars, lvars>>

\* lines 100-122: the generator visits one entry of os.scandir, in the
\* order the operating system gives.  The call of line 118 passes no
\* prefix to _scandir(dir_path, prefix, suffix, recursive), whose four
\* parameters have no default: Python raises TypeError when it binds the
\* arguments, before the generator for the subdirectory exists.
ScanEntry ==
    /\ spc = "iter"
    /\ \E entry \in todo :
         /\ todo' = todo \ {entry}
         /\ IF ~Hidden(entry) /\ IsFile(scanFiles, entry)
            THEN CASE Filter(entry, prefix, suffix) = "yield" ->
                        yielded' = Append(yielded, entry) /\ UNCHANGED <<spc, serr>>
                   [] Filter(entry, prefix, suffix) = "skip" ->
                        UNCHANGED <<yielded, spc, serr>>
                   [] Filter(entry, prefix, suffix) = "TypeError" ->
                        /\ spc' = "raised"
                        /\ serr' = [kind |-> "TypeError", msg |-> "startswith", at |-> entry]
                        /\ UNCHANGED yielded
            ELSE IF recursive
                 THEN /\ spc' = "raised"
                      /\ serr' = [kind |-> "TypeError", msg |-> "missing prefix", at |-> entry]
                      /\ UNCHANGED yielded
                 ELSE UNCHANGED <<yielded, spc, serr>>
    /\ UNCHANGED <<scanFiles, dir_path, prefix, suffix, recursive>>
    /\ UNCHANGED <<bvars, lvars>>

\* os.scandir is exhausted: the generator ends
ScanStop ==
    /\ spc = "iter"
    /\ todo = {}
    /\ spc' = "done"
    /\ UNCHANGED <<scanFiles, dir_path, prefix, suffix, recursive, todo, yielded, serr>>
    /\ UNCHANGED <<bvars, lvars>>

NextScan == ScanCall \/ ScanEntry \/ ScanStop

SpecScan == InitScan /\ [][NextScan]_vars

\* the paths yielded so far
Yielded == {yielded[k] : k \in 1..Len(yielded)}

\* no component of path f starts with a dot
NoHiddenPart(f) == \A k \in 1..Len(Split(f, "/")) : ~Hidden(Split(f, "/")[k])

\* C6: with prefix=None and suffix=None the scan does not raise; with
\* recursive=True it yields every non-hidden regular file at any depth,
\* with recursive=False the non-hidden files directly under the root.
C6_ScanAllFiles ==
    (prefix = PyNone /\ suffix = PyNone /\ is_filepath(dir_path))
    => /\ spc # "raised"
       /\ spc = "done" =>
            Yielded = IF recursive
                      THEN {f \in scanFiles : NoHiddenPart(f)}
                      ELSE {f \in scanFiles : NoHiddenPart(f) /\ Len(Split(f, "/")) = 1}

\* the condition of the specification on one relative path
Wanted(rel, pre, suf) ==
    /\ pre.type # "None" => \E q \in pre.val : StartsWith(rel, q)
    /\ suf.type # "None" => \E q \in suf.val : EndsWith(rel, q)

\* C7: a non-hidden regular file met by the scan is yielded if and only if
\* it satisfies the prefix and suffix that are given; a file that does not
\* is skipped without an error (stated for recursive=False, where every
\* file met is a direct child of the root).
C7_FilterByPrefixSuffix ==
    (~recursive /\ spc \in {"iter", "done", "raised"} /\ is_filepath(dir_path)
       /\ prefix.type \in {"None", "str", "tuple"} /\ suffix.type \in {"None", "str", "tuple"})
    => /\ spc # "raised"
       /\ \A f \in (Entries(scanFiles) \cap scanFiles) \ todo :
            ~Hidden(f) => (f \in Yielded <=> Wanted(f, prefix, suffix))

\* C10: a hidden entry is never yielded and never causes an error.
C10_HiddenExcluded ==
    /\ \A f \in Yielded : NoHiddenPart(f)
    /\ ~(spc = "raised" /\ Hidden(serr.at))

-----------------------------------------------------------------------------
(* symlink *)

\* the paths of the directory the links are made in, and a path outside it
LinkPaths == {"p", "q"}
LinkTargets == LinkPaths \cup {"gone"}

Absent == [kind |-> "absent", target |-> ""]
LinkTo(target) == [kind |-> "link", target |-> target]
Nodes == {Absent, [kind |-> "file", target |-> ""], [kind |-> "dir", target |-> ""]}
           \cup {LinkTo(x) : x \in LinkTargets}

\* osp.exists(p): TRUE when p, links followed, leads to a file or directory
PathExists(F, p) ==
    /\ p \in DOMAIN F
    /\ \/ F[p].kind \in {"file", "dir"}
       \/ /\ F[p].kind = "link"
          /\ F[p].target \in DOMAIN F
          /\ \/ F[F[p].target].kind \in {"file", "dir"}
             \/ /\ F[F[p].target].kind = "link"
                /\ F[F[p].target].target \in DOMAIN F
                /\ F[F[F[p].target].target].kind \in {"file", "dir"}

\* lexists replaced by exists, which follows the link
lexistsFollowing(F, p) == PathExists(F, p)

\* line 70: osp.lexists(dst): TRUE for a link whatever it points at
lexists(F, p) == p \in DOMAIN F /\ F[p].kind # "absent"

\* line 71: os.remove(dst) under the guard of line 70; os.remove of a
\* directory raises IsADirectoryError
Removal(F, dst, overwrite) ==
    IF lexists(F, dst) /\ overwrite
    THEN IF F[dst].kind = "dir"
         THEN [result |-> "IsADirectoryError", fs |-> F]
         ELSE [result |-> "ok", fs |-> [F EXCEPT ![dst] = Absent]]
    ELSE [result |-> "ok", fs |-> F]

\* line 72: os.symlink(src, dst) fails with FileExistsError when dst is there
OsSymlink(F, src, dst) ==
    IF F[dst].kind # "absent"
    THEN [result |-> "FileExistsError", fs |-> F]
    ELSE [result |-> "ok", fs |-> [F EXCEPT ![dst] = LinkTo(src)]]

InitLink ==
    /\ fs \in [LinkPaths -> Nodes]
    /\ last = NoCall
    /\ BackupIdle /\ ScanIdle

\* lines 70-72: symlink(src, dst, overwrite)
Symlink ==
    /\ \E src \in LinkTargets, dst \in LinkPaths, overwrite \in BOOLEAN :
         LET removed == Removal(fs, dst, overwrite)
             linked == IF removed.result = "ok" THEN OsSymlink(removed.fs, src, dst)
                       ELSE removed
         IN  /\ fs' = linked.fs
             /\ last' = [src |-> src, dst |-> dst, overwrite |-> overwrite,
                         before |-> fs[dst], stale |-> ~PathExists(fs, dst),
                         result |-> linked.result]
    /\ UNCHANGED <<bvars, svars>>

NextLink == Symlink

SpecSymlink == InitLink /\ [][NextLink]_vars

\* C9: symlink with overwrite=True on a dst that is a link, stale or not,
\* replaces it by a link to src; symlink with overwrite=False on a dst that
\* exists fails with FileExistsError and leaves dst as it was.
C9_SymlinkOverwrite ==
    last.result # "none"
    => /\ (last.overwrite /\ last.before.kind = "link")
            => last.result = "ok" /\ fs[last.dst] = LinkTo(last.src)
       /\ (~last.overwrite /\ last.before.kind # "absent")
            => last.result = "FileExistsError" /\ fs[last.dst] = last.before

C9_Witness ==
    /\ last.result = "ok"
    /\ last.overwrite /\ last.before.kind = "link" /\ last.stale
    /\ last.src # last.before.target
    /\ fs[last.dst] = LinkTo(last.src)

====
